---- MODULE Spec2Model ----
(***************************************************************************)
(* Model of BatchAudioNormalizer.py: the worker thread                     *)
(* (AudioNormalizerWorker.run / stop), the controller                      *)
(* (AudioNormalizerApp.select_folder / process_files / cancel_processing / *)
(* the three slots) and the queue of signals between them.                 *)
(*                                                                         *)
(* Numbers.  Samples and gains are floating-point numbers in the program.  *)
(* Here a value is an exact rational n/d, or one of the IEEE specials      *)
(* NaN, +Inf, -Inf, with the IEEE rules for the specials (0*Inf = NaN,     *)
(* NaN > 0 is false, log10(0) = -Inf, 10**Inf = Inf).  Rounding error of   *)
(* finite results is not modelled.                                         *)
(***************************************************************************)
EXTENDS Integers, Sequences, FiniteSets, TLC

(***************************************************************************)
(* Bounds of the model.                                                    *)
(***************************************************************************)
\* Spec: the batches started and the files of a selected folder
MaxRuns == 1
MaxFiles == 1
\* SpecDir: the same, for batches that follow one another into one folder
MaxRunsDir == 2
MaxFilesDir == 2
\* RunSpec: the input files of the worker
MaxInputFiles == 2
\* StopSpec: the calls of stop() on one worker
MaxStops == 2
\* SpecBusy: the batches started and the files of a selected folder
MaxRunsBusy == 3
MaxFilesBusy == 1

(***************************************************************************)
(* Extended rational arithmetic.                                           *)
(***************************************************************************)
\* TLC evaluates the arguments of an operator each time they are used.
\* Let1 and Let2 evaluate the arguments once and apply Op to their values.
Let1(x, Op(_)) == CHOOSE r \in {Op(v) : v \in {x}} : TRUE
Let2(x, y, Op(_, _)) == CHOOSE r \in {Op(v, w) : v \in {x}, w \in {y}} : TRUE

AbsInt(x) == IF x < 0 THEN -x ELSE x

RECURSIVE GCD(_, _)
GCD(x, y) == Let2(x, y, LAMBDA a, b : IF b = 0 THEN a ELSE GCD(b, a % b))

Fin(x, y) ==
    Let2(x, y, LAMBDA n, d :
        Let1(GCD(AbsInt(n), d), LAMBDA g :
            [t |-> "fin", n |-> n \div g, d |-> d \div g]))

NaN == [t |-> "nan", n |-> 0, d |-> 1]
PInf == [t |-> "inf", n |-> 1, d |-> 1]
NInf == [t |-> "inf", n |-> -1, d |-> 1]
Zero == [t |-> "fin", n |-> 0, d |-> 1]
One == [t |-> "fin", n |-> 1, d |-> 1]

Sign(x) == IF x > 0 THEN 1 ELSE IF x < 0 THEN -1 ELSE 0

\* a * b, numpy float multiplication
Mul(x, y) ==
    Let2(x, y, LAMBDA a, b :
        IF a.t = "nan" \/ b.t = "nan" THEN NaN
        ELSE IF a.t = "inf" \/ b.t = "inf"
             THEN IF a.n = 0 \/ b.n = 0 THEN NaN
                  ELSE IF Sign(a.n) * Sign(b.n) > 0 THEN PInf ELSE NInf
             ELSE Fin(a.n * b.n, a.d * b.d))

\* a + b
Add(x, y) ==
    Let2(x, y, LAMBDA a, b :
        IF a.t = "nan" \/ b.t = "nan" THEN NaN
        ELSE IF a.t = "inf" /\ b.t = "inf"
             THEN IF a.n = b.n THEN a ELSE NaN
             ELSE IF a.t = "inf" THEN a
             ELSE IF b.t = "inf" THEN b
             ELSE Fin(a.n * b.d + b.n * a.d, a.d * b.d))

\* a / b, numpy float division
Div(x, y) ==
    Let2(x, y, LAMBDA a, b :
        IF a.t = "nan" \/ b.t = "nan" THEN NaN
        ELSE IF b.t = "inf" THEN (IF a.t = "inf" THEN NaN ELSE Zero)
        ELSE IF b.n = 0
             THEN IF a.n = 0 THEN NaN ELSE IF a.n > 0 THEN PInf ELSE NInf
             ELSE IF a.t = "inf"
                  THEN IF Sign(a.n) * Sign(b.n) > 0 THEN PInf ELSE NInf
                  ELSE Fin(a.n * b.d * Sign(b.n), a.d * AbsInt(b.n)))

\* a > 0 (false for NaN)
Gt0(x) == Let1(x, LAMBDA a : a.t # "nan" /\ a.n > 0)

\* a > b for values without NaN
Gt(x, y) ==
    Let2(x, y, LAMBDA a, b :
        IF a.t = "inf" THEN a.n > 0 /\ a # b
        ELSE IF b.t = "inf" THEN b.n < 0
        ELSE a.n * b.d > b.n * a.d)

AbsV(x) == Let1(x, LAMBDA a : IF a.t = "nan" THEN NaN ELSE [a EXCEPT !.n = AbsInt(a.n)])

ISqrt(x) == Let1(x, LAMBDA n : CHOOSE r \in 0..n : r * r <= n /\ (r + 1) * (r + 1) > n)

\* np.sqrt; exact on the rationals whose numerator and denominator are squares
Sqrt(x) ==
    Let1(x, LAMBDA a :
        IF a.t = "nan" THEN NaN
        ELSE IF a.t = "inf" THEN (IF a.n > 0 THEN PInf ELSE NaN)
        ELSE IF a.n < 0 THEN NaN
        ELSE Fin(ISqrt(a.n), ISqrt(a.d)))

RECURSIVE SumSeq(_)
SumSeq(x) ==
    Let1(x, LAMBDA s : IF s = <<>> THEN Zero ELSE Add(Head(s), SumSeq(Tail(s))))

\* np.mean of a 1-D array: NaN for an empty array
Mean(x) ==
    Let1(x, LAMBDA s : IF s = <<>> THEN NaN ELSE Div(SumSeq(s), Fin(Len(s), 1)))

RECURSIVE MaxSeq(_)
MaxSeq(x) ==
    Let1(x, LAMBDA s :
        IF Len(s) = 1 THEN Head(s)
        ELSE Let1(MaxSeq(Tail(s)), LAMBDA m : IF Gt(Head(s), m) THEN Head(s) ELSE m))

RECURSIVE Pow10(_)
Pow10(k) == IF k = 0 THEN 1 ELSE 10 * Pow10(k - 1)

(***************************************************************************)
(* Sample buffers.  audio.ndim is 1 for a 1-D array (one channel) and 2    *)
(* for a 2-D array indexed [channel][frame]; ch is the sequence of         *)
(* channels in both cases.                                                 *)
(***************************************************************************)
Array1(s) == [ndim |-> 1, ch |-> <<s>>, rs |-> <<>>]
Array2(chs) == [ndim |-> 2, ch |-> chs, rs |-> <<>>]

Frames(a) == Len(a.ch[1])

RECURSIVE Flatten(_)
Flatten(chs) == IF chs = <<>> THEN <<>> ELSE Head(chs) \o Flatten(Tail(chs))

AllSamples(a) == Flatten(a.ch)

MapSeq(s, Op(_)) == [j \in 1..Len(s) |-> Op(s[j])]

\* channel * gain
ScaleChannel(x, y) ==
    Let2(x, y, LAMBDA s, g : [j \in 1..Len(s) |-> Mul(s[j], g)])

\* audio * gain (gain a scalar)
Scale(x, y) ==
    Let2(x, y, LAMBDA a, g :
        [a EXCEPT !.ch = [c \in 1..Len(a.ch) |-> ScaleChannel(a.ch[c], g)]])

Squares(x) == Let1(x, LAMBDA s : [j \in 1..Len(s) |-> Mul(s[j], s[j])])

\* np.sqrt(np.mean(x**2))
Rms(s) == Sqrt(Mean(Squares(s)))

\* np.mean(audio, axis=0): the per-frame mean over the channels
MonoMix(x) ==
    Let1(x, LAMBDA a :
        [j \in 1..Frames(a) |->
            Div(SumSeq([c \in 1..Len(a.ch) |-> a.ch[c][j]]), Fin(Len(a.ch), 1))])

IsSilent(a) == Frames(a) > 0 /\ \A j \in 1..Len(AllSamples(a)) : AllSamples(a)[j] = Zero

HasNonFinite(a) == \E j \in 1..Len(AllSamples(a)) : AllSamples(a)[j].t # "fin"

(***************************************************************************)
(* Normalization, lines 53-93.  The result is [ok |-> TRUE, audio |-> a]   *)
(* or [ok |-> FALSE, msg |-> m] when the code raises.                      *)
(***************************************************************************)
\* 10 ** (target_level / 20.0); levels are multiples of 20 dB, so it is exact
TargetAmplitude(level) == Fin(1, Pow10((0 - level) \div 20))

\* 10 ** (23 / 20) = 14.125..., the gain of the fixed offset of line 91
OffsetGainNum == 113
OffsetGainDen == 8

Returned(a) == [ok |-> TRUE, audio |-> a, msg |-> "none"]
Raised(m) == [ok |-> FALSE, audio |-> Array1(<<>>), msg |-> m]

\* NormalizePeak with the peak taken channel by channel
NormalizePeak_per_channel(audio, level) ==
    IF AllSamples(audio) = <<>>
    THEN Raised("ValueError")
    ELSE Returned([audio EXCEPT !.ch =
            [c \in 1..Len(audio.ch) |->
                Let2(MaxSeq(MapSeq(audio.ch[c], AbsV)), TargetAmplitude(level),
                     LAMBDA max_amplitude, target_amplitude :
                         IF Gt0(max_amplitude)
                         THEN ScaleChannel(audio.ch[c],
                                           Div(target_amplitude, max_amplitude))
                         ELSE audio.ch[c])]])

\* np.max(np.abs(audio)) raises ValueError for an array without elements
NormalizePeak(audio, level) ==
    IF AllSamples(audio) = <<>>
    THEN Raised("ValueError")
    ELSE Let2(MaxSeq(MapSeq(AllSamples(audio), AbsV)), TargetAmplitude(level),
              LAMBDA max_amplitude, target_amplitude :
                  IF Gt0(max_amplitude)
                  THEN Returned(Scale(audio, Div(target_amplitude, max_amplitude)))
                  ELSE Returned(audio))

\* target_rms / current_rms if current_rms > 0 else 1.0
RmsGain(level, x) ==
    Let1(x, LAMBDA current_rms :
        IF Gt0(current_rms) THEN Div(TargetAmplitude(level), current_rms) ELSE One)

\* NormalizeRms with one gain, from the RMS of all the samples
NormalizeRms_joint(audio, level) ==
    Returned(Scale(audio, RmsGain(level, Rms(AllSamples(audio)))))

\* lines 62-78
NormalizeRms(audio, level) ==
    IF audio.ndim > 1
    THEN Let2(RmsGain(level, Rms(audio.ch[1])), RmsGain(level, Rms(audio.ch[2])),
              LAMBDA gain_left, gain_right :
                  Returned(Array2(<<ScaleChannel(audio.ch[1], gain_left),
                                    ScaleChannel(audio.ch[2], gain_right)>>)))
    ELSE Returned(Scale(audio, RmsGain(level, Rms(audio.ch[1]))))

\* 10**((target_loudness - (20*np.log10(rms) - 23)) / 20):
\* log10(0) = -Inf gives the gain +Inf, a NaN rms gives NaN, and a positive
\* rms gives 10**(level/20) * 10**(23/20) / rms
LoudnessGain(level, x) ==
    Let1(x, LAMBDA rms :
        IF rms.t = "nan" THEN NaN
        ELSE IF rms.n = 0 THEN PInf
        ELSE IF rms.t = "inf" THEN Zero
        ELSE Div(Mul(TargetAmplitude(level), Fin(OffsetGainNum, OffsetGainDen)), rms))

NormalizeLoudness(audio, level) ==
    Let1(IF audio.ndim > 1 THEN MonoMix(audio) ELSE audio.ch[1],
         LAMBDA mono_audio :
             Returned(Scale(audio, LoudnessGain(level, Rms(mono_audio)))))

Normalize(x, method, level) ==
    Let1(x, LAMBDA audio :
        IF method = "peak" THEN NormalizePeak(audio, level)
        ELSE IF method = "rms" THEN NormalizeRms(audio, level)
        ELSE NormalizeLoudness(audio, level))

(***************************************************************************)
(* Files and paths.  A file name is base + "." + ext; a base name is a     *)
(* sequence of pieces so that base + "_temp" is a different name from      *)
(* base and may equal the base name of another file.                       *)
(***************************************************************************)
File(base, ext) == [base |-> base, ext |-> ext]

\* os.path.splitext(file_name)[0]
base_name(file) == file.base

\* os.path.join(output_folder, f"{base_name}.{target_format}")
output_file(file, target_format) == File(base_name(file), target_format)

\* os.path.join(output_folder, f"{base_name}_temp.wav")
temp_wav(file) == File(Append(base_name(file), "_temp"), "wav")

(***************************************************************************)
(* Inputs of the model.                                                    *)
(***************************************************************************)
Options(formats, methods, depths, stereos, rates, levels) ==
    [target_format : formats, normalize_method : methods, bit_depth : depths,
     stereo : stereos, sample_rate : rates, target_level : levels]

\* what librosa.load can return for a file: 1-D when mono is requested or the
\* file has one channel, 2-D otherwise
SilentMono == Array1(<<Zero, Zero>>)
LoudMono == Array1(<<Fin(1, 10), Fin(-7, 10)>>)
EmptyMono == Array1(<<>>)
SilentStereo == Array2(<<<<Zero, Zero>>, <<Zero, Zero>>>>)
HalfSilentStereo == Array2(<<<<Fin(1, 5), Fin(-1, 5)>>, <<Zero, Zero>>>>)

MonoBuffers == {SilentMono, LoudMono, EmptyMono}
UnequalStereo == Array2(<<<<Fin(3, 10), Fin(-3, 10)>>, <<Fin(2, 5), Fin(2, 5)>>>>)

StereoBuffers == {SilentStereo, HalfSilentStereo, UnequalStereo}

Loadable(stereo) == IF stereo THEN MonoBuffers \cup StereoBuffers ELSE MonoBuffers

NativeRates == {44100, 48000}

(***************************************************************************)
(* State.                                                                  *)
(***************************************************************************)
VARIABLES
    audio_files,      \* AudioNormalizerApp.audio_files
    folder_button,    \* isEnabled() of the three buttons
    process_button,
    cancel_button,
    status_label,     \* text of the status label, as <<text>> or <<text, argument>>
    progress_bar,     \* value of the progress bar
    worker,           \* AudioNormalizerApp.worker: 0 is None, k the k-th worker created
    gui,              \* "idle": in the event loop; "wait": inside worker.wait();
                      \* "aborted": an exception left a slot and PyQt ended the process
    opened,           \* workers whose finished signal made processing_finished open the folder
    queue,            \* signals emitted by worker threads and not yet delivered to the slots
    job,              \* per worker: the constructor arguments
    is_running,       \* per worker: AudioNormalizerWorker.is_running
    pc,               \* per worker: position of its thread in run()
    i,                \* per worker: the loop index of run()
    loc,              \* per worker: the locals audio, sr, normalized_audio, audio_segment
    emitted,          \* per worker: every signal it has emitted, in order
    raised,           \* per worker: the loop indexes at which a step raised
    stop_at,          \* per worker: where its thread was, and how many file events and
                      \* events it had emitted, when stop() was first called
    outdir            \* the files of the output folder: path -> content

gui_vars == <<audio_files, folder_button, process_button, cancel_button,
              status_label, progress_bar, worker, gui, opened>>
worker_vars == <<job, is_running, pc, i, loc, emitted, raised, stop_at>>
vars == <<audio_files, folder_button, process_button, cancel_button,
          status_label, progress_bar, worker, gui, opened, queue,
          job, is_running, pc, i, loc, emitted, raised, stop_at, outdir>>

\* the workers a specification can create
Max(a, b) == IF a > b THEN a ELSE b

Workers == 1..Max(MaxRuns, Max(MaxRunsDir, MaxRunsBusy))

NoJob ==
    [input_files |-> <<>>, target_format |-> "none", target_level |-> 0,
     normalize_method |-> "none", bit_depth |-> 0, stereo |-> FALSE,
     sample_rate |-> 0]

NoAudio == Array1(<<>>)
NoLocals ==
    [audio |-> NoAudio, sr |-> 0, normalized_audio |-> NoAudio,
     audio_segment |-> <<>>]

NotStopped == [at |-> "none", n |-> 0, len |-> 0, calls |-> 0]

\* QThread.isRunning()
isRunning(k) == pc[k] \notin {"unborn", "done"}

total_files(k) == Len(job[k].input_files)

\* the file of the current loop iteration
file_path(k) == job[k].input_files[i[k] + 1]

(***************************************************************************)
(* Signals.                                                                *)
(***************************************************************************)
Signal(sig, value, text) == [sig |-> sig, value |-> value, text |-> text]

NoText == [error |-> FALSE, name |-> File(<<>>, ""), msg |-> ""]

\* file_processed.emit(file_name)
FileName(file) == [error |-> FALSE, name |-> file, msg |-> ""]

\* f"ERROR: {file_name} - {str(e)}"
ErrorText(file, msg) == [error |-> TRUE, name |-> file, msg |-> msg]

\* a signal emitted in a worker thread is queued to the slots of the
\* controller, which live in the GUI thread
Emit(k, signal) ==
    /\ emitted' = [emitted EXCEPT ![k] = Append(@, signal)]
    /\ queue' = Append(queue, [w |-> k, ev |-> signal])

RECURSIVE SelectSig(_, _)
SelectSig(s, sig) ==
    IF s = <<>> THEN <<>>
    ELSE IF Head(s).sig = sig THEN <<Head(s)>> \o SelectSig(Tail(s), sig)
    ELSE SelectSig(Tail(s), sig)

FileEvents(k) == SelectSig(emitted[k], "file_processed")
ProgressEvents(k) == SelectSig(emitted[k], "progress_updated")
FinishedEvents(k) == SelectSig(emitted[k], "finished")

(***************************************************************************)
(* The output folder.                                                      *)
(***************************************************************************)
Exists(path) == path \in DOMAIN outdir

WriteFile(dir, path, content) ==
    [p \in DOMAIN dir \cup {path} |-> IF p = path THEN content ELSE dir[p]]

RemoveFile(dir, path) == [p \in DOMAIN dir \ {path} |-> dir[p]]

\* a file of the output folder: what it is, the input file it was made from,
\* its sample rate and its encoding; the samples are not recorded
Content(kind, src, samplerate, enc) ==
    [kind |-> kind, src |-> src, samplerate |-> samplerate, enc |-> enc]

\* what an export that raised may leave at the path
Partial(src) == Content("partial", src, 0, <<"none">>)

(***************************************************************************)
(* Init: the state after AudioNormalizerApp.__init__.                      *)
(***************************************************************************)
Init ==
    /\ audio_files = <<>>
    /\ folder_button = TRUE
    /\ process_button = FALSE
    /\ cancel_button = FALSE
    /\ status_label = <<"Ready">>
    /\ progress_bar = 0
    /\ worker = 0
    /\ gui = "idle"
    /\ opened = {}
    /\ queue = <<>>
    /\ job = [k \in Workers |-> NoJob]
    /\ is_running = [k \in Workers |-> FALSE]
    /\ pc = [k \in Workers |-> "unborn"]
    /\ i = [k \in Workers |-> 0]
    /\ loc = [k \in Workers |-> NoLocals]
    /\ emitted = [k \in Workers |-> <<>>]
    /\ raised = [k \in Workers |-> {}]
    /\ stop_at = [k \in Workers |-> NotStopped]
    /\ outdir = [p \in {} |-> 0]

(***************************************************************************)
(* The worker thread: AudioNormalizerWorker.run, lines 38-126.             *)
(***************************************************************************)
\* str(e): the message of the exception raised by a step; the messages of
\* different exceptions are not distinguished
str(e) == "message"

\* Raise with the try statement around the loop: the first failure ends the loop
Raise_ends_loop(k, e) ==
    /\ Emit(k, Signal("file_processed", 0, ErrorText(file_path(k), str(e))))
    /\ raised' = [raised EXCEPT ![k] = @ \cup {i[k]}]
    /\ i' = [i EXCEPT ![k] = @ + 1]
    /\ loc' = [loc EXCEPT ![k] = NoLocals]
    /\ pc' = [pc EXCEPT ![k] = "emit_finished"]

\* Raise without a try statement: the exception ends run()
Raise_uncaught(k, e) ==
    /\ raised' = [raised EXCEPT ![k] = @ \cup {i[k]}]
    /\ i' = [i EXCEPT ![k] = @ + 1]
    /\ loc' = [loc EXCEPT ![k] = NoLocals]
    /\ pc' = [pc EXCEPT ![k] = "done"]
    /\ UNCHANGED <<emitted, queue>>

\* lines 122-124: the except clause emits the error text; the loop continues
Raise(k, e) ==
    /\ Emit(k, Signal("file_processed", 0, ErrorText(file_path(k), str(e))))
    /\ raised' = [raised EXCEPT ![k] = @ \cup {i[k]}]
    /\ i' = [i EXCEPT ![k] = @ + 1]
    /\ loc' = [loc EXCEPT ![k] = NoLocals]
    /\ pc' = [pc EXCEPT ![k] = "check"]

\* LoopTop without the test of is_running
LoopTop_unpolled(k) ==
    /\ pc[k] = "check"
    /\ IF i[k] >= total_files(k) THEN pc' = [pc EXCEPT ![k] = "emit_finished"]
       ELSE pc' = [pc EXCEPT ![k] = "load"]
    /\ UNCHANGED <<gui_vars, queue, job, is_running, i, loc, emitted, raised,
                   stop_at, outdir>>

\* LoopTop with return in the place of break: a stopped run skips line 126
LoopTop_returns(k) ==
    /\ pc[k] = "check"
    /\ IF i[k] >= total_files(k) THEN pc' = [pc EXCEPT ![k] = "emit_finished"]
       ELSE IF ~is_running[k] THEN pc' = [pc EXCEPT ![k] = "return"]
       ELSE pc' = [pc EXCEPT ![k] = "load"]
    /\ UNCHANGED <<gui_vars, queue, job, is_running, i, loc, emitted, raised,
                   stop_at, outdir>>

\* lines 40-42: the loop is exhausted, or the flag is read, or the file begins
LoopTop(k) ==
    /\ pc[k] = "check"
    /\ IF i[k] >= total_files(k) THEN pc' = [pc EXCEPT ![k] = "emit_finished"]
       ELSE IF ~is_running[k] THEN pc' = [pc EXCEPT ![k] = "emit_finished"]
       ELSE pc' = [pc EXCEPT ![k] = "load"]
    /\ UNCHANGED <<gui_vars, queue, job, is_running, i, loc, emitted, raised,
                   stop_at, outdir>>

\* line 50: librosa.load(file_path, sr=None, mono=not self.stereo)
Load(k) ==
    /\ pc[k] = "load"
    /\ \/ /\ Raise(k, "load")
          /\ UNCHANGED <<gui_vars, job, is_running, stop_at, outdir>>
       \/ /\ \E a \in Loadable(job[k].stereo), rate \in NativeRates :
                loc' = [loc EXCEPT ![k].audio = a, ![k].sr = rate]
          /\ pc' = [pc EXCEPT ![k] = "normalize"]
          /\ UNCHANGED <<gui_vars, queue, job, is_running, i, emitted, raised,
                         stop_at, outdir>>

\* lines 53-93
NormalizeStep(k) ==
    /\ pc[k] = "normalize"
    /\ \E r \in {Normalize(loc[k].audio, job[k].normalize_method,
                            job[k].target_level)} :
          IF r.ok
          THEN /\ loc' = [loc EXCEPT ![k].normalized_audio = r.audio]
               /\ pc' = [pc EXCEPT ![k] = "resample"]
               /\ UNCHANGED <<queue, i, emitted, raised>>
          ELSE Raise(k, r.msg)
    /\ UNCHANGED <<gui_vars, job, is_running, stop_at, outdir>>

\* librosa.resample(y, orig_sr, target_sr): a new array; the filter is not
\* modelled, the array records the conversion it went through
Resampled(a, orig_sr, target_sr) == [a EXCEPT !.rs = Append(@, <<orig_sr, target_sr>>)]

\* the first step of the save, lines 100 and 104
SaveStep(target_format) ==
    IF target_format \in {"wav", "flac", "ogg"} THEN "write"
    ELSE IF target_format = "mp3" THEN "write_temp"
    ELSE "emit_progress"

\* ResampleStep without the test of the rates
ResampleStep_always(k) ==
    /\ pc[k] = "resample"
    /\ \/ /\ loc' = [loc EXCEPT ![k].normalized_audio =
                         Resampled(@, loc[k].sr, job[k].sample_rate)]
          /\ pc' = [pc EXCEPT ![k] = SaveStep(job[k].target_format)]
          /\ UNCHANGED <<queue, i, emitted, raised>>
       \/ Raise(k, "resample")
    /\ UNCHANGED <<gui_vars, job, is_running, stop_at, outdir>>

\* lines 96-97
ResampleStep(k) ==
    /\ pc[k] = "resample"
    /\ IF loc[k].sr # job[k].sample_rate
       THEN \/ /\ loc' = [loc EXCEPT ![k].normalized_audio =
                            Resampled(@, loc[k].sr, job[k].sample_rate)]
               /\ pc' = [pc EXCEPT ![k] = SaveStep(job[k].target_format)]
               /\ UNCHANGED <<queue, i, emitted, raised>>
            \/ Raise(k, "resample")
       ELSE /\ pc' = [pc EXCEPT ![k] = SaveStep(job[k].target_format)]
            /\ UNCHANGED <<queue, i, loc, emitted, raised>>
    /\ UNCHANGED <<gui_vars, job, is_running, stop_at, outdir>>

\* subtype without the test of the format
subtype_always_pcm(target_format, bit_depth) == <<"PCM", bit_depth>>

\* line 101
subtype(target_format, bit_depth) ==
    IF target_format = "wav" THEN <<"PCM", bit_depth>> ELSE <<"default">>

\* sf.write raises when it cannot open the file: the folder is as it was
FailedWrite(k, e) ==
    /\ Raise(k, e)
    /\ UNCHANGED outdir

\* export opens the output file before it runs the encoder: when it raises,
\* the folder is as it was (the file could not be opened) or the output file
\* is there without a complete encoding
FailedExport(k, path, e) ==
    /\ Raise(k, e)
    /\ \/ UNCHANGED outdir
       \/ outdir' = WriteFile(outdir, path, Partial(file_path(k)))

\* lines 100-103: sf.write(output_file, data, self.sample_rate, subtype=subtype)
WriteStep(k) ==
    /\ pc[k] = "write"
    /\ LET path == output_file(file_path(k), job[k].target_format)
       IN  \/ /\ outdir' = WriteFile(outdir, path,
                     Content("out", file_path(k), job[k].sample_rate,
                             subtype(job[k].target_format, job[k].bit_depth)))
              /\ pc' = [pc EXCEPT ![k] = "emit_progress"]
              /\ UNCHANGED <<queue, i, loc, emitted, raised>>
           \/ FailedWrite(k, "write")
    /\ UNCHANGED <<gui_vars, job, is_running, stop_at>>

\* lines 106-108: sf.write(temp_wav, data, self.sample_rate)
WriteTemp(k) ==
    /\ pc[k] = "write_temp"
    /\ LET path == temp_wav(file_path(k))
       IN  \/ /\ outdir' = WriteFile(outdir, path,
                     Content("temp", file_path(k), job[k].sample_rate,
                             <<"default">>))
              /\ pc' = [pc EXCEPT ![k] = "from_wav"]
              /\ UNCHANGED <<queue, i, loc, emitted, raised>>
           \/ FailedWrite(k, "write_temp")
    /\ UNCHANGED <<gui_vars, job, is_running, stop_at>>

\* line 111: AudioSegment.from_wav(temp_wav)
FromWav(k) ==
    /\ pc[k] = "from_wav"
    /\ LET path == temp_wav(file_path(k))
       IN  \/ /\ Exists(path)
              /\ loc' = [loc EXCEPT ![k].audio_segment = <<outdir[path]>>]
              /\ pc' = [pc EXCEPT ![k] = "export"]
              /\ UNCHANGED <<queue, i, emitted, raised>>
           \/ Raise(k, "from_wav")
    /\ UNCHANGED <<gui_vars, job, is_running, stop_at, outdir>>

\* line 112: audio_segment.export(output_file, format="mp3", bitrate=...)
Export(k) ==
    /\ pc[k] = "export"
    /\ LET path == output_file(file_path(k), job[k].target_format)
           segment == loc[k].audio_segment[1]
       IN  \/ /\ outdir' = WriteFile(outdir, path,
                     Content("out", file_path(k), segment.samplerate,
                             <<"bitrate", job[k].bit_depth * 8>>))
              /\ pc' = [pc EXCEPT ![k] = "remove_temp"]
              /\ UNCHANGED <<queue, i, loc, emitted, raised>>
           \/ FailedExport(k, path, "export")
    /\ UNCHANGED <<gui_vars, job, is_running, stop_at>>

\* line 115: os.remove(temp_wav)
RemoveTemp(k) ==
    /\ pc[k] = "remove_temp"
    /\ LET path == temp_wav(file_path(k))
       IN  \/ /\ Exists(path)
              /\ outdir' = RemoveFile(outdir, path)
              /\ pc' = [pc EXCEPT ![k] = "emit_progress"]
              /\ UNCHANGED <<queue, i, loc, emitted, raised>>
           \/ /\ Raise(k, "remove")
              /\ UNCHANGED outdir
    /\ UNCHANGED <<gui_vars, job, is_running, stop_at>>

\* progress computed from i in the place of i + 1
progress_from_index(index, total) == (index * 100) \div total

\* line 118: int((i + 1) / total_files * 100).  The float quotient is
\* truncated; for fewer than 50 files this is the integer quotient.
progress(index, total) == ((index + 1) * 100) \div total

\* line 119
EmitProgress(k) ==
    /\ pc[k] = "emit_progress"
    /\ Emit(k, Signal("progress_updated", progress(i[k], total_files(k)), NoText))
    /\ pc' = [pc EXCEPT ![k] = "emit_file"]
    /\ UNCHANGED <<gui_vars, job, is_running, i, loc, raised, stop_at, outdir>>

\* EmitFileProcessed with the loop stepping over the next file
EmitFileProcessed_skips(k) ==
    /\ pc[k] = "emit_file"
    /\ Emit(k, Signal("file_processed", 0, FileName(file_path(k))))
    /\ i' = [i EXCEPT ![k] = @ + 2]
    /\ loc' = [loc EXCEPT ![k] = NoLocals]
    /\ pc' = [pc EXCEPT ![k] = "check"]
    /\ UNCHANGED <<gui_vars, job, is_running, raised, stop_at, outdir>>

\* line 120, and the end of the loop body
EmitFileProcessed(k) ==
    /\ pc[k] = "emit_file"
    /\ Emit(k, Signal("file_processed", 0, FileName(file_path(k))))
    /\ i' = [i EXCEPT ![k] = @ + 1]
    /\ loc' = [loc EXCEPT ![k] = NoLocals]
    /\ pc' = [pc EXCEPT ![k] = "check"]
    /\ UNCHANGED <<gui_vars, job, is_running, raised, stop_at, outdir>>

\* line 126
EmitFinished(k) ==
    /\ pc[k] = "emit_finished"
    /\ Emit(k, Signal("finished", 0, NoText))
    /\ pc' = [pc EXCEPT ![k] = "return"]
    /\ UNCHANGED <<gui_vars, job, is_running, i, loc, raised, stop_at, outdir>>

\* run() returns and the thread ends
ThreadExit(k) ==
    /\ pc[k] = "return"
    /\ pc' = [pc EXCEPT ![k] = "done"]
    /\ UNCHANGED <<gui_vars, queue, job, is_running, i, loc, emitted, raised,
                   stop_at, outdir>>

(***************************************************************************)
(* The controller: AudioNormalizerApp, lines 399-475.  Its methods run in  *)
(* the GUI thread, one at a time; while cancel_processing is inside        *)
(* worker.wait() nothing else runs in the GUI thread.                      *)
(***************************************************************************)
\* lines 399-415, for a dialog that returned a folder with this listing
select_folder(listing) ==
    /\ gui = "idle"
    /\ folder_button
    /\ audio_files' = listing
    /\ IF listing # <<>>
       THEN /\ status_label' = <<"Found", Len(listing)>>
            /\ process_button' = TRUE
       ELSE /\ status_label' = <<"No audio files found in the selected folder">>
            /\ process_button' = FALSE
    /\ UNCHANGED <<folder_button, cancel_button, progress_bar, worker, gui,
                   opened, queue, worker_vars, outdir>>

\* the worker object that self.worker referred to is dropped when self.worker
\* is rebound; its thread, if still running, goes on
Rebind(f, fresh, dead) ==
    [k \in Workers |->
        IF k = worker + 1 THEN fresh
        ELSE IF k = worker /\ pc[k] = "done" THEN dead
        ELSE f[k]]

\* process_files with os.makedirs called after the buttons are switched
process_files_late_makedirs(options, creatable) ==
    /\ gui = "idle"
    /\ process_button
    /\ IF audio_files = <<>>
       THEN UNCHANGED vars
       ELSE IF ~creatable
       THEN /\ gui' = "aborted"
            /\ folder_button' = FALSE
            /\ process_button' = FALSE
            /\ cancel_button' = TRUE
            /\ UNCHANGED <<audio_files, status_label, progress_bar, worker,
                           opened, queue, worker_vars, outdir>>
       ELSE /\ folder_button' = FALSE
            /\ process_button' = FALSE
            /\ cancel_button' = TRUE
            /\ worker' = worker + 1
            /\ job' = Rebind(job, [input_files |-> audio_files,
                                   target_format |-> options.target_format,
                                   target_level |-> options.target_level,
                                   normalize_method |-> options.normalize_method,
                                   bit_depth |-> options.bit_depth,
                                   stereo |-> options.stereo,
                                   sample_rate |-> options.sample_rate], NoJob)
            /\ is_running' = Rebind(is_running, TRUE, FALSE)
            /\ pc' = Rebind(pc, "check", "unborn")
            /\ i' = Rebind(i, 0, 0)
            /\ loc' = Rebind(loc, NoLocals, NoLocals)
            /\ emitted' = Rebind(emitted, <<>>, <<>>)
            /\ raised' = Rebind(raised, {}, {})
            /\ stop_at' = Rebind(stop_at, NotStopped, NotStopped)
            /\ UNCHANGED <<audio_files, status_label, progress_bar, gui,
                           opened, queue, outdir>>

\* lines 417-446; creatable: whether os.makedirs succeeds.  The OSError of
\* os.makedirs is not caught: it leaves the slot, and PyQt5 ends the process
\* on an exception that leaves a slot.
process_files(options, creatable) ==
    /\ gui = "idle"
    /\ process_button
    /\ IF audio_files = <<>>
       THEN UNCHANGED vars
       ELSE IF ~creatable
       THEN /\ gui' = "aborted"
            /\ UNCHANGED <<audio_files, folder_button, process_button,
                           cancel_button, status_label, progress_bar, worker,
                           opened, queue, worker_vars, outdir>>
       ELSE /\ folder_button' = FALSE
            /\ process_button' = FALSE
            /\ cancel_button' = TRUE
            /\ worker' = worker + 1
            /\ job' = Rebind(job, [input_files |-> audio_files,
                                   target_format |-> options.target_format,
                                   target_level |-> options.target_level,
                                   normalize_method |-> options.normalize_method,
                                   bit_depth |-> options.bit_depth,
                                   stereo |-> options.stereo,
                                   sample_rate |-> options.sample_rate], NoJob)
            /\ is_running' = Rebind(is_running, TRUE, FALSE)
            /\ pc' = Rebind(pc, "check", "unborn")
            /\ i' = Rebind(i, 0, 0)
            /\ loc' = Rebind(loc, NoLocals, NoLocals)
            /\ emitted' = Rebind(emitted, <<>>, <<>>)
            /\ raised' = Rebind(raised, {}, {})
            /\ stop_at' = Rebind(stop_at, NotStopped, NotStopped)
            /\ UNCHANGED <<audio_files, status_label, progress_bar, gui,
                           opened, queue, outdir>>

\* where a thread is: at the top of the loop, inside the body for a file, or
\* past the loop
InFlight == {"load", "normalize", "resample", "write", "write_temp",
             "from_wav", "export", "remove_temp", "emit_progress", "emit_file"}

Position(p) ==
    IF p = "check" THEN "loop_top" ELSE IF p \in InFlight THEN "in_flight" ELSE "ending"

\* lines 128-129
\* stop with the flag inverted in the place of cleared
stop_toggles(k) ==
    /\ is_running' = [is_running EXCEPT ![k] = ~@]
    /\ stop_at' = [stop_at EXCEPT ![k] =
                     IF @ = NotStopped
                     THEN [at |-> Position(pc[k]), n |-> Len(FileEvents(k)),
                           len |-> Len(emitted[k]), calls |-> 1]
                     ELSE [@ EXCEPT !.calls = @ + 1]]

\* lines 128-129; stop_at records where the run was at the first call, and
\* the number of calls
stop(k) ==
    /\ is_running' = [is_running EXCEPT ![k] = FALSE]
    /\ stop_at' = [stop_at EXCEPT ![k] =
                     IF @ = NotStopped
                     THEN [at |-> Position(pc[k]), n |-> Len(FileEvents(k)),
                           len |-> Len(emitted[k]), calls |-> 1]
                     ELSE [@ EXCEPT !.calls = @ + 1]]

\* lines 467-470: the click on Cancel, up to the call of wait()
cancel_processing ==
    /\ gui = "idle"
    /\ cancel_button
    /\ IF worker # 0 /\ isRunning(worker)
       THEN /\ stop(worker)
            /\ gui' = "wait"
       ELSE UNCHANGED <<is_running, stop_at, gui>>
    /\ UNCHANGED <<audio_files, folder_button, process_button, cancel_button,
                   status_label, progress_bar, worker, opened,
                   queue, job, pc, i, loc, emitted, raised, outdir>>

\* lines 470-475: wait() returns when the thread has ended
cancel_processing_resume ==
    /\ gui = "wait"
    /\ ~isRunning(worker)
    /\ status_label' = <<"Processing canceled">>
    /\ cancel_button' = FALSE
    /\ folder_button' = TRUE
    /\ process_button' = TRUE
    /\ gui' = "idle"
    /\ UNCHANGED <<audio_files, progress_bar, worker, opened,
                   queue, worker_vars, outdir>>

\* lines 448-449
update_progress(value) ==
    /\ progress_bar' = value
    /\ UNCHANGED <<folder_button, process_button, cancel_button, status_label,
                   opened>>

\* lines 451-452
update_status(filename) ==
    /\ status_label' = <<"Processing: ", filename>>
    /\ UNCHANGED <<folder_button, process_button, cancel_button, progress_bar,
                   opened>>

\* lines 454-465; sender: the worker whose signal is delivered
processing_finished(sender) ==
    /\ progress_bar' = 100
    /\ status_label' = <<"Processing completed">>
    /\ folder_button' = TRUE
    /\ process_button' = TRUE
    /\ cancel_button' = FALSE
    /\ opened' = opened \cup {sender}

\* the event loop delivers the oldest queued signal to its slot
Deliver ==
    /\ gui = "idle"
    /\ queue # <<>>
    /\ LET m == Head(queue)
       IN  IF m.ev.sig = "progress_updated" THEN update_progress(m.ev.value)
           ELSE IF m.ev.sig = "file_processed" THEN update_status(m.ev.text)
           ELSE processing_finished(m.w)
    /\ queue' = Tail(queue)
    /\ UNCHANGED <<audio_files, worker, gui, worker_vars, outdir>>

(***************************************************************************)
(* Specifications.                                                         *)
(***************************************************************************)
WorkerStep(k) ==
    \/ LoopTop(k)
    \/ Load(k)
    \/ NormalizeStep(k)
    \/ ResampleStep(k)
    \/ WriteStep(k)
    \/ WriteTemp(k)
    \/ FromWav(k)
    \/ Export(k)
    \/ RemoveTemp(k)
    \/ EmitProgress(k)
    \/ EmitFileProcessed(k)
    \/ EmitFinished(k)
    \/ ThreadExit(k)

\* the jobs and folders of the main specification
JobOptions ==
    Options({"wav"}, {"loudness"}, {16}, {TRUE}, {44100}, {-20})
        \cup Options({"mp3"}, {"peak"}, {16}, {FALSE}, {44100}, {-20})

\* the folder the user selects holds these files, found in this order; a
\* listing is what was found when the folder was selected
FolderFiles ==
    <<File(<<"x">>, "wav"), File(<<"x", "_temp">>, "wav"), File(<<"x">>, "flac")>>

Folders(n) == {SubSeq(FolderFiles, 1, m) : m \in 0..n}

SelectFolder == \E listing \in Folders(MaxFiles) : select_folder(listing)

ProcessFiles ==
    /\ worker < MaxRuns
    /\ \E options \in JobOptions :
          \* os.makedirs(exist_ok=True) can fail only while the folder is absent
          \E creatable \in (IF worker = 0 THEN BOOLEAN ELSE {TRUE}) :
              process_files(options, creatable)

Next ==
    \/ SelectFolder
    \/ ProcessFiles
    \/ cancel_processing
    \/ cancel_processing_resume
    \/ Deliver
    \/ \E k \in Workers : WorkerStep(k)

Spec == Init /\ [][Next]_vars

\* runs that follow one another into the same output folder
SelectFolderDir == \E listing \in Folders(MaxFilesDir) : select_folder(listing)

ProcessFilesDir ==
    /\ worker < MaxRunsDir
    /\ \E options \in JobOptions :
          \E creatable \in (IF worker = 0 THEN BOOLEAN ELSE {TRUE}) :
              process_files(options, creatable)

NextDir ==
    \/ SelectFolderDir
    \/ ProcessFilesDir
    \/ cancel_processing
    \/ cancel_processing_resume
    \/ Deliver
    \/ \E k \in Workers : WorkerStep(k)

SpecDir == Init /\ [][NextDir]_vars

\* batches of one job started one after another, each as soon as the Process
\* button allows it
SelectFolderBusy == \E listing \in Folders(MaxFilesBusy) : select_folder(listing)

ProcessFilesBusy ==
    /\ worker < MaxRunsBusy
    /\ \E options \in JobOptions :
          \E creatable \in (IF worker = 0 THEN BOOLEAN ELSE {TRUE}) :
              process_files(options, creatable)

NextBusy ==
    \/ SelectFolderBusy
    \/ ProcessFilesBusy
    \/ cancel_processing
    \/ cancel_processing_resume
    \/ Deliver
    \/ \E k \in Workers : WorkerStep(k)

SpecBusy == Init /\ [][NextBusy]_vars

\* One run of a worker.  RunInit is the state in which process_files leaves
\* the program at line 446: the worker is constructed over the files of the
\* folder and the settings, its signals are connected and its thread is
\* started.  The controller can cancel, and the event loop delivers the
\* signals, while the thread runs.
RunJobOptions ==
    JobOptions \cup Options({"flac"}, {"rms"}, {24}, {TRUE}, {48000}, {-20})

Started(listing, options) ==
    /\ audio_files = listing
    /\ folder_button = FALSE
    /\ process_button = FALSE
    /\ cancel_button = TRUE
    /\ status_label = <<"Found", Len(listing)>>
    /\ progress_bar = 0
    /\ worker = 1
    /\ gui = "idle"
    /\ opened = {}
    /\ queue = <<>>
    /\ job = [k \in Workers |->
                IF k = 1
                THEN [input_files |-> listing,
                      target_format |-> options.target_format,
                      target_level |-> options.target_level,
                      normalize_method |-> options.normalize_method,
                      bit_depth |-> options.bit_depth,
                      stereo |-> options.stereo,
                      sample_rate |-> options.sample_rate]
                ELSE NoJob]
    /\ is_running = [k \in Workers |-> k = 1]
    /\ pc = [k \in Workers |-> IF k = 1 THEN "check" ELSE "unborn"]
    /\ i = [k \in Workers |-> 0]
    /\ loc = [k \in Workers |-> NoLocals]
    /\ emitted = [k \in Workers |-> <<>>]
    /\ raised = [k \in Workers |-> {}]
    /\ stop_at = [k \in Workers |-> NotStopped]
    /\ outdir = [p \in {} |-> 0]

RunInit ==
    \E listing \in Folders(MaxInputFiles) \ {<<>>}, options \in RunJobOptions :
        Started(listing, options)

RunNext ==
    \/ cancel_processing
    \/ cancel_processing_resume
    \/ Deliver
    \/ \E k \in Workers : WorkerStep(k)

RunSpec == RunInit /\ [][RunNext]_vars

\* One run of a worker for each format and bit depth of the two combo boxes.
EncodeJobOptions ==
    Options({"wav", "flac", "ogg", "mp3"}, {"peak"}, {16, 24, 32}, {FALSE},
            {44100}, {-20})

EncodeInit ==
    \E listing \in Folders(MaxInputFiles) \ {<<>>}, options \in EncodeJobOptions :
        Started(listing, options)

EncodeSpec == EncodeInit /\ [][RunNext]_vars

\* One run of a worker for the peak and rms methods on all the channels.
NormJobOptions ==
    Options({"wav", "mp3"}, {"peak", "rms"}, {16}, {TRUE}, {44100}, {-20, 0})

NormInit ==
    \E listing \in Folders(MaxInputFiles) \ {<<>>}, options \in NormJobOptions :
        Started(listing, options)

NormSpec == NormInit /\ [][RunNext]_vars

\* One run of a worker over a folder that holds one base name under two
\* extensions; the *.wav pattern is globbed before the *.flac pattern.
SameBaseFiles == <<File(<<"x">>, "wav"), File(<<"x">>, "flac")>>

SameBaseInit ==
    \E options \in JobOptions : Started(SameBaseFiles, options)

SameBaseSpec == SameBaseInit /\ [][RunNext]_vars

\* One run of a worker whose stop() is called by any caller, at any point of
\* the run and any number of times.
StopCall ==
    \E k \in Workers :
        /\ pc[k] # "unborn"
        /\ stop_at[k].calls < MaxStops
        /\ stop(k)
        /\ UNCHANGED <<gui_vars, queue, job, pc, i, loc, emitted, raised, outdir>>

StopNext ==
    \/ StopCall
    \/ \E k \in Workers : WorkerStep(k)

StopSpec == RunInit /\ [][StopNext]_vars

\* the worker thread is scheduled: a thread that can take a step takes one
FairRunSpec == RunSpec /\ \A k \in Workers : WF_vars(WorkerStep(k))

(***************************************************************************)
(* Properties.                                                             *)
(***************************************************************************)
Ended(k) == pc[k] \in {"return", "done"}
Stopped(k) == stop_at[k] # NotStopped
Last(s) == s[Len(s)]

\* C1: a run over N files in which stop() is never called emits exactly N
\* file_processed events, the j-th for the j-th input file; the j-th is the
\* ERROR text exactly when a step raised for the j-th file; so a file that
\* fails does not keep the later files from being processed.
C1_OneEventPerFile ==
    \A k \in Workers :
        (Ended(k) /\ ~Stopped(k)) =>
            /\ Len(FileEvents(k)) = total_files(k)
            /\ \A j \in 1..total_files(k) :
                  /\ FileEvents(k)[j].text.name = job[k].input_files[j]
                  /\ FileEvents(k)[j].text.error <=> (j - 1) \in raised[k]

C1_Witness ==
    \E k \in Workers :
        /\ pc[k] = "done" /\ ~Stopped(k)
        /\ total_files(k) = 2
        /\ raised[k] = {0}
        /\ ~FileEvents(k)[2].text.error

\* C2: with target mp3, once the processing of a file has ended (success or
\* failure) the file <base>_temp.wav written for it no longer exists.
ResidualTemp(k) ==
    {j \in 1..i[k] :
        /\ temp_wav(job[k].input_files[j]) \in DOMAIN outdir
        /\ outdir[temp_wav(job[k].input_files[j])].kind = "temp"
        /\ outdir[temp_wav(job[k].input_files[j])].src = job[k].input_files[j]}

C2_NoResidualTemp ==
    \A k \in Workers :
        (job[k].target_format = "mp3" /\ pc[k] \notin InFlight) =>
            ResidualTemp(k) = {}

\* C3: once stop() has set the flag the worker begins no file: a worker that
\* is inside a file after stop() was inside that same file when stop() was
\* called; that file is not interrupted and emits its own event, so exactly
\* one file event follows a stop() made while a file was in flight and none
\* follows a stop() made at any other point.
C3_PolledCancel ==
    \A k \in Workers :
        Stopped(k) =>
            /\ Len(FileEvents(k)) <= stop_at[k].n + 1
            /\ pc[k] \in InFlight =>
                  (stop_at[k].at = "in_flight" /\ Len(FileEvents(k)) = stop_at[k].n)
            /\ Ended(k) =>
                  Len(FileEvents(k)) =
                      stop_at[k].n + (IF stop_at[k].at = "in_flight" THEN 1 ELSE 0)

C3_Witness ==
    \E k \in Workers :
        /\ pc[k] = "done"
        /\ stop_at[k].at = "in_flight"
        /\ Len(FileEvents(k)) = stop_at[k].n + 1
        /\ Len(FileEvents(k)) < total_files(k)

\* C4: when stop() is called after file i has emitted its event and before
\* the loop-top check of file i+1, the run emits exactly i file events in
\* all, no file or progress event for a later file, and then finished:
\* the events at the end are the events at the time of stop() and finished.
C4_CancelBetweenFiles ==
    \A k \in Workers :
        (stop_at[k].at = "loop_top") =>
            /\ Len(FileEvents(k)) = stop_at[k].n
            /\ stop_at[k].n = i[k]
            /\ Len(ProgressEvents(k)) + Len(FileEvents(k)) = stop_at[k].len
            /\ Ended(k) =>
                  /\ Len(emitted[k]) = stop_at[k].len + 1
                  /\ Last(emitted[k]).sig = "finished"

C4_Witness ==
    \E k \in Workers :
        /\ pc[k] = "done"
        /\ stop_at[k].at = "loop_top"
        /\ stop_at[k].n = 1
        /\ total_files(k) = 2
        /\ Len(emitted[k]) = stop_at[k].len + 1

\* C5: after a run that cancel_processing stopped before its last file, the
\* completion actions of processing_finished are not performed for that run:
\* the finished event of the run does not open the output folder.
C5_NoCompletionAfterCancel ==
    \A k \in Workers :
        (Stopped(k) /\ Ended(k) /\ Len(FileEvents(k)) < total_files(k)) =>
            k \notin opened

\* C6: every started run ends, having emitted finished exactly once and as
\* its last event, however many files fail and whenever stop() is called.
FinishedOnceAndLast(k) ==
    /\ Len(FinishedEvents(k)) = 1
    /\ Last(emitted[k]).sig = "finished"

C6_RunEndsWithFinished ==
    /\ \A k \in Workers :
          [](isRunning(k) => <>(pc[k] = "done" /\ FinishedOnceAndLast(k)))
    /\ [](\A k \in Workers :
            /\ Len(FinishedEvents(k)) <= 1
            /\ Len(FinishedEvents(k)) = 1 => (Ended(k) /\ Last(emitted[k]).sig = "finished"))

C6_Witness ==
    \E k \in Workers :
        /\ pc[k] = "done"
        /\ FinishedOnceAndLast(k)
        /\ raised[k] # {}
        /\ Stopped(k)

\* C7: for a silent buffer each normalization method leaves the buffer
\* unchanged: the normalized samples are all zero, never NaN or Inf.
C7_SilenceUnchanged ==
    \A k \in Workers :
        (pc[k] = "resample" /\ IsSilent(loc[k].audio)) =>
            /\ loc[k].normalized_audio = loc[k].audio
            /\ ~HasNonFinite(loc[k].normalized_audio)

\* C8: a progress event is emitted only for a file that succeeds, with the
\* value (index+1)*100 div total_files; the values lie in 0..100 and never
\* decrease, and the success of the last file emits 100.
FileEventsBefore(k, n) == Len(SelectSig(SubSeq(emitted[k], 1, n), "file_processed"))

C8_Progress ==
    \A k \in Workers :
        /\ \A n \in 1..Len(emitted[k]) :
              emitted[k][n].sig = "progress_updated" =>
                  /\ emitted[k][n].value =
                        ((FileEventsBefore(k, n) + 1) * 100) \div total_files(k)
                  /\ emitted[k][n].value \in 0..100
                  /\ IF n = Len(emitted[k]) THEN pc[k] = "emit_file"
                     ELSE /\ emitted[k][n + 1].sig = "file_processed"
                          /\ ~emitted[k][n + 1].text.error
        /\ \A n \in 1..Len(emitted[k]) :
              (emitted[k][n].sig = "file_processed" /\ ~emitted[k][n].text.error) =>
                  /\ n > 1
                  /\ emitted[k][n - 1].sig = "progress_updated"
                  /\ FileEventsBefore(k, n) = total_files(k) =>
                        emitted[k][n - 1].value = 100
        /\ \A a, b \in 1..Len(ProgressEvents(k)) :
              a < b => ProgressEvents(k)[a].value <= ProgressEvents(k)[b].value

C8_Witness ==
    \E k \in Workers :
        /\ pc[k] = "done"
        /\ total_files(k) = 2
        /\ Len(ProgressEvents(k)) = 2
        /\ ProgressEvents(k)[1].value = 50
        /\ ProgressEvents(k)[2].value = 100

\* C9: when the output folder cannot be created, process_files fails before
\* the run starts: no worker is created or started, no signal is emitted, and
\* the buttons and self.worker are as they were before the call.
C9_FailsBeforeRun ==
    [][gui' = "aborted" =>
          /\ UNCHANGED <<folder_button, process_button, cancel_button, worker>>
          /\ UNCHANGED <<worker_vars, queue>>
          /\ \A k \in Workers : pc[k] = "unborn" /\ emitted[k] = <<>>]_vars

C9_Witness ==
    /\ gui = "aborted"
    /\ process_button /\ folder_button /\ ~cancel_button
    /\ worker = 0
    /\ queue = <<>>

\* C10: writing and deleting the temporary file <base>_temp.wav never
\* overwrites or removes an output produced for another file, over any
\* sequence of runs into the same output folder.
C10_TempSparesOutputs ==
    [][\A p \in DOMAIN outdir :
          outdir[p].kind = "out" =>
              /\ p \in DOMAIN outdir'
              /\ outdir'[p].kind # "temp"]_vars

\* C11: is_running is written by stop() alone and never by a step of the
\* worker; within a run it is monotonic: once cleared it stays cleared; and
\* stop() is idempotent: a call of stop() on a worker whose flag is cleared
\* changes nothing of the worker, the signals or the output folder.
C11_CancelFlag ==
    [][\A k \in Workers :
          /\ (pc[k] # "unborn" /\ ~is_running[k]) => ~is_running'[k]
          /\ (pc[k] # "unborn" /\ is_running'[k] # is_running[k]) =>
                (pc'[k] = pc[k] /\ stop_at'[k].calls = stop_at[k].calls + 1)
          /\ (stop_at[k].calls >= 1 /\ stop_at'[k].calls = stop_at[k].calls + 1) =>
                UNCHANGED <<is_running, pc, i, loc, emitted, queue, outdir>>]_vars

C11_Witness ==
    \E k \in Workers :
        /\ stop_at[k].calls = 2
        /\ stop_at[k].at = "in_flight"
        /\ pc[k] = "done"
        /\ ~is_running[k]
        /\ Len(FileEvents(k)) = stop_at[k].n + 1

\* C12: files are processed one at a time in input order: when the worker
\* is at file i+1, each of the files 1..i has emitted its event, in input
\* order, and no later file has emitted an event or written to the output
\* folder; between two files nothing of a file is in flight.
C12_Sequential ==
    \A k \in Workers :
        pc[k] # "unborn" =>
            /\ Len(FileEvents(k)) = i[k]
            /\ i[k] <= total_files(k)
            /\ \A j \in 1..Len(FileEvents(k)) :
                  FileEvents(k)[j].text.name = job[k].input_files[j]
            /\ Len(ProgressEvents(k)) <=
                  i[k] + (IF pc[k] = "emit_file" THEN 1 ELSE 0)
            /\ \A p \in DOMAIN outdir :
                  \E j \in 1..(IF pc[k] \in InFlight THEN i[k] + 1 ELSE i[k]) :
                      outdir[p].src = job[k].input_files[j]
            /\ pc[k] \notin InFlight => loc[k] = NoLocals

C12_Witness ==
    \E k \in Workers :
        /\ pc[k] = "normalize"
        /\ i[k] = 1
        /\ total_files(k) = 2
        /\ Len(FileEvents(k)) = 1
        /\ ~FileEvents(k)[1].text.error
        /\ output_file(job[k].input_files[1], job[k].target_format) \in DOMAIN outdir
        /\ output_file(job[k].input_files[2], job[k].target_format) \notin DOMAIN outdir

\* C13: the resampler is called exactly when the native rate of the file
\* differs from the target rate: the array given to the writer is the
\* normalized array itself when the rates are equal and the resampled one
\* otherwise; every file written is written at the target rate.
C13_ResampleNoOp ==
    \A k \in Workers :
        /\ pc[k] \in {"write", "write_temp"} =>
              \E r \in {Normalize(loc[k].audio, job[k].normalize_method,
                                  job[k].target_level)} :
                  /\ r.ok
                  /\ IF loc[k].sr = job[k].sample_rate
                     THEN loc[k].normalized_audio = r.audio
                     ELSE loc[k].normalized_audio =
                              Resampled(r.audio, loc[k].sr, job[k].sample_rate)
        /\ pc[k] # "unborn" =>
              \A p \in DOMAIN outdir :
                  (outdir[p].kind \in {"out", "temp"}
                      /\ outdir[p].src \in {job[k].input_files[j] :
                                                j \in 1..total_files(k)}) =>
                      outdir[p].samplerate = job[k].sample_rate

C13_Witness ==
    \E k \in Workers :
        /\ pc[k] = "emit_progress"
        /\ loc[k].sr = job[k].sample_rate
        /\ loc[k].normalized_audio.rs = <<>>
        /\ ~IsSilent(loc[k].audio)
        /\ loc[k].normalized_audio # loc[k].audio
        /\ Exists(output_file(file_path(k), job[k].target_format))
        /\ outdir[output_file(file_path(k), job[k].target_format)].samplerate =
              job[k].sample_rate

\* C14: an output file is encoded by its format: wav with the subtype
\* PCM_<bit_depth>; flac and ogg with the default subtype of the container,
\* whatever the bit depth; mp3 with the bitrate bit_depth * 8 kbps, which is
\* 128, 192 or 256.
C14_EncoderDispatch ==
    \A k \in Workers :
        pc[k] # "unborn" =>
            \A p \in DOMAIN outdir :
                outdir[p].kind = "out" =>
                    /\ p.ext = job[k].target_format
                    /\ p.ext = "wav" => outdir[p].enc = <<"PCM", job[k].bit_depth>>
                    /\ p.ext \in {"flac", "ogg"} => outdir[p].enc = <<"default">>
                    /\ p.ext = "mp3" =>
                          /\ outdir[p].enc = <<"bitrate", job[k].bit_depth * 8>>
                          /\ outdir[p].enc[2] \in {128, 192, 256}

C14_Witness ==
    \E k \in Workers :
        /\ pc[k] = "done"
        /\ job[k].target_format = "ogg"
        /\ job[k].bit_depth = 24
        /\ \E p \in DOMAIN outdir :
              outdir[p].kind = "out" /\ outdir[p].enc = <<"default">>

\* C15: peak normalization of a buffer that is not silent multiplies every
\* sample of every channel by the one gain 10^(L/20) / peak, peak being the
\* largest absolute sample of all channels, so that the new peak is
\* 10^(L/20).
Peak(a) == MaxSeq(MapSeq(AllSamples(a), AbsV))

C15_PeakGain ==
    \A k \in Workers :
        (/\ pc[k] = "resample"
         /\ job[k].normalize_method = "peak"
         /\ ~IsSilent(loc[k].audio)) =>
            /\ loc[k].normalized_audio.ndim = loc[k].audio.ndim
            /\ Len(loc[k].normalized_audio.ch) = Len(loc[k].audio.ch)
            /\ \A c \in 1..Len(loc[k].audio.ch) :
                  /\ Len(loc[k].normalized_audio.ch[c]) = Len(loc[k].audio.ch[c])
                  /\ \A j \in 1..Len(loc[k].audio.ch[c]) :
                        loc[k].normalized_audio.ch[c][j] =
                            Mul(loc[k].audio.ch[c][j],
                                Div(TargetAmplitude(job[k].target_level),
                                    Peak(loc[k].audio)))
            /\ Peak(loc[k].normalized_audio) = TargetAmplitude(job[k].target_level)

C15_Witness ==
    \E k \in Workers :
        /\ pc[k] = "resample"
        /\ job[k].normalize_method = "peak"
        /\ job[k].target_level = -20
        /\ loc[k].audio = UnequalStereo
        /\ Peak(loc[k].normalized_audio) = Fin(1, 10)
        /\ loc[k].normalized_audio.ch[1][1] = Fin(3, 40)

\* C16: rms normalization of a stereo buffer scales each channel by the gain
\* of that channel alone, 10^(L/20) / rms_c when rms_c > 0 and 1 otherwise:
\* a channel that is not silent ends with the RMS 10^(L/20), a silent
\* channel is unchanged, and the output has the two channels of the input.
C16_RmsPerChannel ==
    \A k \in Workers :
        (/\ pc[k] = "resample"
         /\ job[k].normalize_method = "rms"
         /\ loc[k].audio.ndim = 2) =>
            /\ loc[k].normalized_audio.ndim = 2
            /\ Len(loc[k].normalized_audio.ch) = Len(loc[k].audio.ch)
            /\ \A c \in 1..Len(loc[k].audio.ch) :
                  IF Gt0(Rms(loc[k].audio.ch[c]))
                  THEN /\ loc[k].normalized_audio.ch[c] =
                             ScaleChannel(loc[k].audio.ch[c],
                                          Div(TargetAmplitude(job[k].target_level),
                                              Rms(loc[k].audio.ch[c])))
                       /\ Rms(loc[k].normalized_audio.ch[c]) =
                             TargetAmplitude(job[k].target_level)
                  ELSE loc[k].normalized_audio.ch[c] = loc[k].audio.ch[c]

C16_Witness ==
    \E k \in Workers :
        /\ pc[k] = "resample"
        /\ job[k].normalize_method = "rms"
        /\ job[k].target_level = -20
        /\ loc[k].audio = UnequalStereo
        /\ Rms(loc[k].normalized_audio.ch[1]) = Fin(1, 10)
        /\ Rms(loc[k].normalized_audio.ch[2]) = Fin(1, 10)
        /\ loc[k].normalized_audio.ch[1][1] = Fin(1, 10)
        /\ loc[k].normalized_audio.ch[2][1] = Fin(1, 10)

\* C17: at most one worker is active at any time: process_files never
\* starts a worker while an earlier worker is still executing run(), that is,
\* has not yet emitted finished at line 126.
Executing(k) == pc[k] \notin {"unborn", "return", "done"}

C17_OneActiveWorker ==
    \A a, b \in Workers : (Executing(a) /\ Executing(b)) => a = b

\* C18: within one run no input file writes to the output path of another
\* input file: at the end of a run that was not cancelled each file that
\* reported success has its own output file in the output folder, written
\* from that file.
C18_OwnOutput ==
    \A k \in Workers :
        (pc[k] = "done" /\ ~Stopped(k)) =>
            \A j \in 1..total_files(k) :
                  (j <= Len(FileEvents(k)) /\ ~FileEvents(k)[j].text.error) =>
                      /\ Exists(output_file(job[k].input_files[j],
                                            job[k].target_format))
                      /\ outdir[output_file(job[k].input_files[j],
                                            job[k].target_format)].src =
                            job[k].input_files[j]

====
